---- MODULE Spec2Model ----
(***************************************************************************)
(* Model of libqtile/layout/base.py: the _ClientList collection (an        *)
(* ordered list of windows plus a cursor) and the operations that mutate   *)
(* it.  Indices are 0-based as in the Python source; a TLA+ sequence s     *)
(* holds the Python element s[i] at position i + 1.                         *)
(***************************************************************************)
EXTENDS Integers, Sequences, FiniteSets, TLC

\* ---- bounds ----
NumWindows == 3        \* distinct window handles
MaxLen == 3            \* longest client list explored
MaxOffset == 2         \* offset_to_current ranges over -MaxOffset..MaxOffset
MaxIndexArg == 4       \* current_index setter argument ranges over -MaxIndexArg..MaxIndexArg
MaxOther == 2          \* longest 'other' list handed to join

Windows == 1..NumWindows
NoWindow == 0          \* Python None where a Window is expected
Offsets == (0 - MaxOffset)..MaxOffset
IndexArgs == (0 - MaxIndexArg)..MaxIndexArg
Placements == {"after_current", "before_current", "top", "bottom"}
FocusArgs == {0, 1, 2}

VARIABLES clients, current_idx, last, distinct_args, layouts, colls, llast, run

\* one _ClientList on its own
cvars == <<clients, current_idx, last, distinct_args>>

\* _SimpleLayoutBase instances, the _ClientList objects they refer to, the last layout call
lvars == <<layouts, colls, llast, run>>

vars == <<clients, current_idx, last, distinct_args, layouts, colls, llast, run>>

\* ---- Python built-ins used by the source ----
Abs(x) == IF x < 0 THEN 0 - x ELSE x

Max(a, b) == IF a >= b THEN a ELSE b

\* list.__contains__
Contains(s, w) == \E i \in 1..Len(s) : s[i] = w

\* list.index: 0-based position of the first occurrence (caller checks membership,
\* a non-member makes list.index raise ValueError)
Index(s, w) == (CHOOSE i \in 1..Len(s) : s[i] = w /\ \A j \in 1..(i - 1) : s[j] # w) - 1

\* list.insert(pos, w) for pos >= 0: positions beyond the end append
ListInsert(s, pos, w) ==
    LET p == IF pos < Len(s) THEN pos ELSE Len(s)
    IN  SubSeq(s, 1, p) \o <<w>> \o SubSeq(s, p + 1, Len(s))

\* del s[idx]
ListDelete(s, idx) == SubSeq(s, 1, idx) \o SubSeq(s, idx + 2, Len(s))

\* exchange written as two assignments in a row: s[i1] = s[i2]; s[i2] = s[i1]
ListExchangeSequential(s, i1, i2) ==
    [k \in 1..Len(s) |-> IF k = i1 + 1 THEN s[i2 + 1] ELSE s[k]]

\* s[i1], s[i2] = s[i2], s[i1]
ListExchange(s, i1, i2) ==
    [k \in 1..Len(s) |-> IF k = i1 + 1 THEN s[i2 + 1]
                         ELSE IF k = i2 + 1 THEN s[i1 + 1] ELSE s[k]]

\* ---- _ClientList ----

\* current_index setter that clamps into the list instead of wrapping
CurrentIndexSetterClamp(x, n) ==
    IF n # 0 THEN (IF x < 0 THEN 0 ELSE IF x >= n THEN n - 1 ELSE x) ELSE 0

\* current_index setter with the sign taken before the remainder
CurrentIndexSetterAbsFirst(x, n) == IF n # 0 THEN Abs(x) % n ELSE 0

\* current_index setter: the value stored for argument x on a list of length n
CurrentIndexSetter(x, n) == IF n # 0 THEN Abs(x % n) ELSE 0

\* current_client getter
CurrentClient(s, cur) == IF Len(s) = 0 THEN NoWindow ELSE s[cur + 1]

\* __getitem__ with wrap-around instead of None
GetItemWrap(s, i) == IF Len(s) = 0 THEN NoWindow ELSE s[(i % Len(s)) + 1]

\* __getitem__ for an integer i: negative i counts from the end, IndexError gives None
GetItem(s, i) ==
    IF i >= 0 /\ i < Len(s) THEN s[i + 1]
    ELSE IF i < 0 /\ 0 - i <= Len(s) THEN s[Len(s) + i + 1]
    ELSE NoWindow

\* index(client)
IndexOf(s, w) == Index(s, w)

\* add_client line 323: pos = max(0, self._current_idx + offset_to_current)
InsertPos(cur, offset) == Max(0, cur + offset)

\* add_client lines 324-327: insert at pos when pos is inside the list, else append
InsertOrAppend(s, pos, w) == IF pos < Len(s) THEN ListInsert(s, pos, w) ELSE Append(s, w)

\* append_head
AppendHead(s, w) == ListInsert(s, 0, w)

\* add_client that treats 'after_current' like 'before_current'
AddClientListAfterAsBefore(s, cur, w, offset, place) ==
    IF place \in {"after_current", "before_current"} THEN InsertOrAppend(s, InsertPos(cur, 0), w)
    ELSE IF place = "top" THEN AppendHead(s, w)
    ELSE IF place = "bottom" THEN Append(s, w)
    ELSE InsertOrAppend(s, InsertPos(cur, offset), w)

\* add_client: the client list after inserting w (place "none" is client_position None)
AddClientList(s, cur, w, offset, place) ==
    IF place = "after_current" THEN InsertOrAppend(s, InsertPos(cur, 1), w)
    ELSE IF place = "before_current" THEN InsertOrAppend(s, InsertPos(cur, 0), w)
    ELSE IF place = "top" THEN AppendHead(s, w)
    ELSE IF place = "bottom" THEN Append(s, w)
    ELSE InsertOrAppend(s, InsertPos(cur, offset), w)

\* remove's cursor adjustment without the floor at 0
RemoveIndexNoFloor(cur, idx, newlen) ==
    IF newlen = 0 THEN 0
    ELSE IF idx <= cur THEN cur - 1
    ELSE cur

\* remove's cursor adjustment that only steps back when the cursor itself is removed
RemoveIndexOnlyCurrent(cur, idx, newlen) ==
    IF newlen = 0 THEN 0
    ELSE IF idx = cur THEN Max(0, cur - 1)
    ELSE cur

\* remove lines 350-353: the cursor after deleting position idx, newlen elements remain
RemoveIndex(cur, idx, newlen) ==
    IF newlen = 0 THEN 0
    ELSE IF idx <= cur THEN Max(0, cur - 1)
    ELSE cur

\* rotate_up line 364: clients.append(clients.pop(0))
RotateUpList(s) == Append(Tail(s), Head(s))

\* rotate_down that rotates the wrong way
RotateDownListAsUp(s) == Append(Tail(s), Head(s))

\* rotate_down line 375: clients.insert(0, clients.pop())
RotateDownList(s) == <<s[Len(s)]>> \o SubSeq(s, 1, Len(s) - 1)

\* swap lines 389-392: the cursor after swap(c1, c2, focus), i1 and i2 the positions found
SwapIndex(cur, i1, i2, focus, n) ==
    IF focus = 1 THEN CurrentIndexSetter(i1, n)
    ELSE IF focus = 2 THEN CurrentIndexSetter(i2, n)
    ELSE cur

\* shuffle_up that exchanges with the successor
ShuffleUpListWrongSide(s, idx) == IF idx + 1 < Len(s) THEN ListExchange(s, idx, idx + 1) ELSE s

\* shuffle_up line 402
ShuffleUpList(s, idx) == ListExchange(s, idx, idx - 1)

\* shuffle_down line 414
ShuffleDownList(s, idx) == ListExchange(s, idx, idx + 1)

\* join lines 423-427
JoinList(s, cur, other, offset) ==
    LET pos == Max(0, cur + offset)
    IN  IF pos < Len(s) THEN SubSeq(s, 1, pos) \o other \o SubSeq(s, pos + 1, Len(s))
        ELSE s \o other

\* ---- the record of the last call: its arguments, the state it started from, its result ----
\* The record keeps the calls of one family of operations (last.watch); a call of any other
\* operation runs just the same and leaves the record blank.
WatchedOps(family) ==
    CASE family = "cursor" -> {"set_current_index", "focus", "focus_first", "focus_last",
                               "focus_next", "focus_previous", "add_client", "remove"}
      [] family = "order"  -> {"rotate_up", "rotate_down", "shuffle_up", "shuffle_down", "join"}
      [] family = "lookup" -> {"index", "focus", "swap"}

BlankRecord(op, family) ==
    [op |-> op, w |-> NoWindow, w2 |-> NoWindow, x |-> 0, flag |-> FALSE,
     place |-> "none", other |-> <<>>, ret |-> NoWindow, err |-> FALSE,
     pre_clients |-> <<>>, pre_idx |-> 0,
     chain |-> FALSE, origin_clients |-> <<>>, origin_idx |-> 0, origin_w |-> NoWindow,
     alias |-> FALSE, other_idx |-> 0, other_post |-> <<>>, other_idx_post |-> 0,
     watch |-> family]

Call(op, w, w2, x, flag, place, other, ret, err) ==
    [op |-> op, w |-> w, w2 |-> w2, x |-> x, flag |-> flag, place |-> place,
     other |-> other, ret |-> ret, err |-> err,
     pre_clients |-> clients, pre_idx |-> current_idx,
     chain |-> FALSE, origin_clients |-> <<>>, origin_idx |-> 0, origin_w |-> NoWindow,
     alias |-> FALSE, other_idx |-> 0, other_post |-> <<>>, other_idx_post |-> 0,
     watch |-> last.watch]

Record(call) ==
    IF call.op \in WatchedOps(last.watch) THEN call ELSE BlankRecord("unwatched", last.watch)

\* all sequences over S of length at most n
RECURSIVE SeqsUpTo(_, _)
SeqsUpTo(S, n) ==
    IF n = 0 THEN {<<>>}
    ELSE LET shorter == SeqsUpTo(S, n - 1)
         IN  shorter \cup {Append(s, e) : s \in {t \in shorter : Len(t) = n - 1}, e \in S}

Distinct(s) == \A i, j \in 1..Len(s) : i # j => s[i] # s[j]

\* the client lists of the other collection handed to join
Others == {s \in SeqsUpTo(Windows, MaxOther) : Distinct(s)}

\* ---- _SimpleLayoutBase: the configured template and the instances cloned for groups ----
NumLayoutWindows == 2  \* windows handed to the template and its clones

LayoutWindows == 1..NumLayoutWindows
Template == 0
LayoutIds == {Template, 1, 2}
Groups == {"g1", "g2"}
NoGroup == "None"      \* Layout._group is None
EmptyColl == [clients |-> <<>>, idx |-> 0]
NoRun == [l |-> Template, kind |-> "none", start |-> NoWindow, seen |-> <<>>]
NoInfo == [group |-> NoGroup, clients |-> <<>>, current |-> 0]

\* the record of a layout call; fields a call does not use keep these values
BlankCall ==
    [op |-> "init", l |-> Template, c |-> Template, g |-> NoGroup, w |-> NoWindow,
     w2 |-> NoWindow, cb |-> FALSE, ret |-> NoWindow, err |-> "", calls |-> <<>>,
     pre_cur |-> NoWindow, origin |-> NoWindow, info |-> NoInfo]

\* Layout.__init__ and _SimpleLayoutBase.__init__ for the template: no group, a new
\* _ClientList; the other ids are not constructed yet
LayoutInit ==
    /\ layouts = [l \in LayoutIds |-> [exists |-> (l = Template), group |-> NoGroup, coll |-> l]]
    /\ colls = [c \in LayoutIds |-> EmptyColl]
    /\ llast = BlankCall
    /\ run = NoRun

\* _ClientList.__init__, with the family of operations the record will keep
InitWatching(family) ==
    /\ clients = <<>>
    /\ current_idx = 0
    /\ distinct_args = TRUE
    /\ last = BlankRecord("init", family)
    /\ LayoutInit

Init == InitWatching("cursor")

InitOrder == InitWatching("order")

InitLookup == InitWatching("lookup")

\* current_index = x
SetCurrentIndex(x) ==
    /\ current_idx' = CurrentIndexSetter(x, Len(clients))
    /\ last' = Record(Call("set_current_index", NoWindow, NoWindow, x, FALSE, "none", <<>>, NoWindow, FALSE))
    /\ UNCHANGED <<clients, distinct_args>>
    /\ UNCHANGED lvars

\* focus(client) / current_client = client: list.index raises ValueError for a non-member
Focus(w) ==
    /\ IF Contains(clients, w)
         THEN /\ current_idx' = Index(clients, w)
              /\ last' = Record(Call("focus", w, NoWindow, 0, FALSE, "none", <<>>, NoWindow, FALSE))
         ELSE /\ current_idx' = current_idx
              /\ last' = Record(Call("focus", w, NoWindow, 0, FALSE, "none", <<>>, NoWindow, TRUE))
    /\ UNCHANGED <<clients, distinct_args>>
    /\ UNCHANGED lvars

\* focus_first()
FocusFirst ==
    /\ last' = Record(Call("focus_first", NoWindow, NoWindow, 0, FALSE, "none", <<>>, GetItem(clients, 0), FALSE))
    /\ UNCHANGED <<clients, current_idx, distinct_args>>
    /\ UNCHANGED lvars

\* focus_last()
FocusLast ==
    /\ last' = Record(Call("focus_last", NoWindow, NoWindow, 0, FALSE, "none", <<>>, GetItem(clients, -1), FALSE))
    /\ UNCHANGED <<clients, current_idx, distinct_args>>
    /\ UNCHANGED lvars

\* focus_next that skips a window
FocusNextRetSkip(s, w) == GetItem(s, IndexOf(s, w) + 2)

\* focus_next(win) for a member: self[self.index(win) + 1]
FocusNextRet(s, w) == GetItem(s, IndexOf(s, w) + 1)

\* focus_previous that is off by one and returns win itself
FocusPreviousRetSame(s, w) == GetItem(s, IndexOf(s, w))

\* focus_previous(win) for a member
FocusPreviousRet(s, w) ==
    LET idx == IndexOf(s, w)
    IN  IF idx > 0 THEN GetItem(s, idx - 1) ELSE NoWindow

\* the call is fed the window the directly preceding call op returned
FedFrom(op, w) == last.op = op /\ ~last.err /\ last.ret # NoWindow /\ last.ret = w

\* focus_next(win): index raises ValueError for a non-member; the record keeps the argument
\* of a directly preceding focus_previous whose result is win
FocusNext(w) ==
    /\ IF Contains(clients, w)
         THEN last' = Record([Call("focus_next", w, NoWindow, 0, FALSE, "none", <<>>,
                            FocusNextRet(clients, w), FALSE)
                         EXCEPT !.chain = FedFrom("focus_previous", w),
                                !.origin_w = IF FedFrom("focus_previous", w) THEN last.w
                                             ELSE NoWindow])
         ELSE last' = Record(Call("focus_next", w, NoWindow, 0, FALSE, "none", <<>>, NoWindow, TRUE))
    /\ UNCHANGED <<clients, current_idx, distinct_args>>
    /\ UNCHANGED lvars

\* focus_previous(win): index raises ValueError for a non-member; the record keeps the
\* argument of a directly preceding focus_next whose result is win
FocusPrevious(w) ==
    /\ IF Contains(clients, w)
         THEN last' = Record([Call("focus_previous", w, NoWindow, 0, FALSE, "none", <<>>,
                            FocusPreviousRet(clients, w), FALSE)
                         EXCEPT !.chain = FedFrom("focus_next", w),
                                !.origin_w = IF FedFrom("focus_next", w) THEN last.w
                                             ELSE NoWindow])
         ELSE last' = Record(Call("focus_previous", w, NoWindow, 0, FALSE, "none", <<>>, NoWindow, TRUE))
    /\ UNCHANGED <<clients, current_idx, distinct_args>>
    /\ UNCHANGED lvars

\* index(client): list.index raises ValueError for a non-member
IndexCall(w) ==
    /\ IF Contains(clients, w)
         THEN last' = Record([Call("index", w, NoWindow, 0, FALSE, "none", <<>>, NoWindow, FALSE)
                         EXCEPT !.x = IndexOf(clients, w)])
         ELSE last' = Record(Call("index", w, NoWindow, 0, FALSE, "none", <<>>, NoWindow, TRUE))
    /\ UNCHANGED <<clients, current_idx, distinct_args>>
    /\ UNCHANGED lvars

\* add_client(client, offset_to_current, client_position)
AddClient(w, offset, place) ==
    /\ Len(clients) < MaxLen
    /\ clients' = AddClientList(clients, current_idx, w, offset, place)
    /\ current_idx' = Index(clients', w)
    /\ distinct_args' = (distinct_args /\ ~Contains(clients, w))
    /\ last' = Record(Call("add_client", w, NoWindow, offset, FALSE, place, <<>>, NoWindow, FALSE))
    /\ UNCHANGED lvars

\* remove(client)
Remove(w) ==
    /\ IF ~Contains(clients, w)
         THEN /\ last' = Record(Call("remove", w, NoWindow, 0, FALSE, "none", <<>>, NoWindow, FALSE))
              /\ UNCHANGED <<clients, current_idx, distinct_args>>
         ELSE LET idx == Index(clients, w)
              IN  /\ clients' = ListDelete(clients, idx)
                  /\ current_idx' = RemoveIndex(current_idx, idx, Len(clients'))
                  /\ last' = Record(Call("remove", w, NoWindow, 0, FALSE, "none", <<>>,
                                  GetItem(clients', current_idx'), FALSE))
                  /\ UNCHANGED distinct_args
    /\ UNCHANGED lvars

\* rotate_up(maintain_index)
RotateUp(m) ==
    /\ IF Len(clients) > 1
         THEN /\ clients' = RotateUpList(clients)
              /\ current_idx' = IF m THEN CurrentIndexSetter(current_idx - 1, Len(clients'))
                                ELSE current_idx
         ELSE UNCHANGED <<clients, current_idx>>
    /\ last' = Record(Call("rotate_up", NoWindow, NoWindow, 0, m, "none", <<>>, NoWindow, FALSE))
    /\ UNCHANGED distinct_args
    /\ UNCHANGED lvars

\* rotate_down(maintain_index); the record keeps the state before a directly preceding
\* rotate_up(True)
RotateDown(m) ==
    /\ IF Len(clients) > 1
         THEN /\ clients' = RotateDownList(clients)
              /\ current_idx' = IF m THEN CurrentIndexSetter(current_idx + 1, Len(clients'))
                                ELSE current_idx
         ELSE UNCHANGED <<clients, current_idx>>
    /\ last' = Record([Call("rotate_down", NoWindow, NoWindow, 0, m, "none", <<>>, NoWindow, FALSE)
                  EXCEPT !.chain = (m /\ last.op = "rotate_up" /\ last.flag),
                         !.origin_clients = IF m /\ last.op = "rotate_up" /\ last.flag
                                              THEN last.pre_clients ELSE <<>>,
                         !.origin_idx = IF m /\ last.op = "rotate_up" /\ last.flag
                                          THEN last.pre_idx ELSE 0])
    /\ UNCHANGED distinct_args
    /\ UNCHANGED lvars

\* swap that moves the cursor to c1 before it looks c2 up
SwapCursorFirst(c1, c2, focus) ==
    /\ IF Contains(clients, c1) /\ Contains(clients, c2)
         THEN LET i1 == Index(clients, c1)
                  i2 == Index(clients, c2)
              IN  /\ clients' = ListExchange(clients, i1, i2)
                  /\ current_idx' = SwapIndex(current_idx, i1, i2, focus, Len(clients'))
                  /\ last' = Record(Call("swap", c1, c2, focus, FALSE, "none", <<>>, NoWindow, FALSE))
         ELSE /\ clients' = clients
              /\ current_idx' = IF Contains(clients, c1) THEN Index(clients, c1) ELSE current_idx
              /\ last' = Record(Call("swap", c1, c2, focus, FALSE, "none", <<>>, NoWindow, TRUE))
    /\ UNCHANGED distinct_args
    /\ UNCHANGED lvars

\* swap(c1, c2, focus): list.index raises ValueError before anything is changed
Swap(c1, c2, focus) ==
    /\ IF Contains(clients, c1) /\ Contains(clients, c2)
         THEN LET i1 == Index(clients, c1)
                  i2 == Index(clients, c2)
              IN  /\ clients' = ListExchange(clients, i1, i2)
                  /\ current_idx' = SwapIndex(current_idx, i1, i2, focus, Len(clients'))
                  /\ last' = Record(Call("swap", c1, c2, focus, FALSE, "none", <<>>, NoWindow, FALSE))
         ELSE /\ UNCHANGED <<clients, current_idx>>
              /\ last' = Record(Call("swap", c1, c2, focus, FALSE, "none", <<>>, NoWindow, TRUE))
    /\ UNCHANGED distinct_args
    /\ UNCHANGED lvars

\* shuffle_up(maintain_index)
ShuffleUp(m) ==
    /\ IF current_idx > 0
         THEN /\ clients' = ShuffleUpList(clients, current_idx)
              /\ current_idx' = IF m THEN CurrentIndexSetter(current_idx - 1, Len(clients'))
                                ELSE current_idx
         ELSE UNCHANGED <<clients, current_idx>>
    /\ last' = Record(Call("shuffle_up", NoWindow, NoWindow, 0, m, "none", <<>>, NoWindow, FALSE))
    /\ UNCHANGED distinct_args
    /\ UNCHANGED lvars

\* shuffle_down(maintain_index)
ShuffleDown(m) ==
    /\ IF current_idx + 1 < Len(clients)
         THEN /\ clients' = ShuffleDownList(clients, current_idx)
              /\ current_idx' = IF m THEN CurrentIndexSetter(current_idx + 1, Len(clients'))
                                ELSE current_idx
         ELSE UNCHANGED <<clients, current_idx>>
    /\ last' = Record(Call("shuffle_down", NoWindow, NoWindow, 0, m, "none", <<>>, NoWindow, FALSE))
    /\ UNCHANGED distinct_args
    /\ UNCHANGED lvars

\* a join that moves the windows out of other
JoinOtherDrained(alias, newself, other) == <<>>

\* other.clients after self.join(other): join never assigns to it, and it is the list of
\* self only when other is self (alias)
JoinOther(alias, newself, other) == IF alias THEN newself ELSE other

\* join(other, offset_to_current) with another collection, whose list is other and whose
\* cursor is some oidx
Join(other) ==
    /\ Len(clients) + Len(other) <= MaxLen
    /\ \E offset \in Offsets, oidx \in 0..Max(0, Len(other) - 1) :
          /\ clients' = JoinList(clients, current_idx, other, offset)
          /\ last' = Record([Call("join", NoWindow, NoWindow, offset, FALSE, "none", other, NoWindow,
                            FALSE)
                        EXCEPT !.other_idx = oidx,
                               !.other_post = JoinOther(FALSE, clients', other),
                               !.other_idx_post = oidx])
    /\ distinct_args' = (distinct_args /\ \A i \in 1..Len(other) : ~Contains(clients, other[i]))
    /\ UNCHANGED current_idx
    /\ UNCHANGED lvars

\* self.join(self, offset_to_current): other is the receiver itself
JoinSelf(offset) ==
    /\ Len(clients) + Len(clients) <= MaxLen
    /\ clients' = JoinList(clients, current_idx, clients, offset)
    /\ distinct_args' = (distinct_args /\ Len(clients) = 0)
    /\ last' = Record([Call("join", NoWindow, NoWindow, offset, FALSE, "none", clients, NoWindow, FALSE)
                  EXCEPT !.alias = TRUE,
                         !.other_idx = current_idx,
                         !.other_post = JoinOther(TRUE, clients', clients),
                         !.other_idx_post = current_idx])
    /\ UNCHANGED current_idx
    /\ UNCHANGED lvars

Next ==
    \/ \E x \in IndexArgs : SetCurrentIndex(x)
    \/ \E w \in Windows : Focus(w)
    \/ FocusFirst
    \/ FocusLast
    \/ \E w \in Windows : FocusNext(w)
    \/ \E w \in Windows : FocusPrevious(w)
    \/ \E w \in Windows : IndexCall(w)
    \/ \E w \in Windows, offset \in Offsets : AddClient(w, offset, "none")
    \/ \E w \in Windows, place \in Placements : AddClient(w, 0, place)
    \/ \E w \in Windows : Remove(w)
    \/ \E m \in BOOLEAN : RotateUp(m)
    \/ \E m \in BOOLEAN : RotateDown(m)
    \/ \E c1, c2 \in Windows, focus \in FocusArgs : Swap(c1, c2, focus)
    \/ \E m \in BOOLEAN : ShuffleUp(m)
    \/ \E m \in BOOLEAN : ShuffleDown(m)
    \/ \E other \in Others : Join(other)
    \/ \E offset \in Offsets : JoinSelf(offset)

Spec == Init /\ [][Next]_vars

SpecOrder == InitOrder /\ [][Next]_vars

SpecLookup == InitLookup /\ [][Next]_vars

\* ---- properties ----
Min(a, b) == IF a <= b THEN a ELSE b

\* t is s with w inserted at 0-based position p, everything else in its old order
InsertedAt(s, t, p, w) ==
    /\ Len(t) = Len(s) + 1
    /\ \A k \in 1..p : t[k] = s[k]
    /\ t[p + 1] = w
    /\ \A k \in (p + 1)..Len(s) : t[k + 1] = s[k]

\* t is s without the element at 0-based position i
DeletedAt(s, t, i) ==
    /\ Len(t) = Len(s) - 1
    /\ \A k \in 1..i : t[k] = s[k]
    /\ \A k \in (i + 1)..Len(t) : t[k] = s[k + 1]

\* t is s with the elements at 0-based positions i and j exchanged
ExchangedAt(s, t, i, j) ==
    /\ Len(t) = Len(s)
    /\ t[i + 1] = s[j + 1]
    /\ t[j + 1] = s[i + 1]
    /\ \A k \in 1..Len(s) : (k # i + 1 /\ k # j + 1) => t[k] = s[k]

\* i is the 0-based position of the first occurrence of w in s
FirstAt(s, w, i) == i + 1 \in 1..Len(s) /\ s[i + 1] = w /\ \A k \in 1..i : s[k] # w

Member(s, w) == \E k \in 1..Len(s) : s[k] = w

\* C1: the cursor is 0 on an empty collection and a valid position otherwise, after any
\* sequence of operations
C1_CursorInRange ==
    IF Len(clients) = 0 THEN current_idx = 0
    ELSE 0 <= current_idx /\ current_idx < Len(clients)

\* a removal at the cursor while the cursor is on the last position
C1_Witness ==
    /\ last.op = "remove"
    /\ Len(last.pre_clients) >= 2
    /\ last.pre_idx = Len(last.pre_clients) - 1
    /\ Len(clients) = Len(last.pre_clients) - 1
    /\ current_idx = last.pre_idx - 1

\* C2 as stated: the setter stores abs(x) mod n, a value in [0, n); 0 on an empty collection
\* (looked at on collections without duplicates)
C2_SetterAbsThenMod ==
    (last.op = "set_current_index" /\ distinct_args) =>
        IF Len(clients) = 0 THEN current_idx = 0
        ELSE /\ current_idx \in 0..(Len(clients) - 1)
             /\ current_idx = Abs(last.x) % Len(clients)

\* C2 amended: the setter stores the value in [0, n) that is congruent to x modulo n (the
\* remainder of floored division, so -1 gives n - 1); 0 on an empty collection
C2_SetterFlooredMod ==
    last.op = "set_current_index" =>
        IF Len(clients) = 0 THEN current_idx = 0
        ELSE /\ current_idx \in 0..(Len(clients) - 1)
             /\ \E q \in (0 - MaxIndexArg - 1)..MaxIndexArg :
                    last.x = q * Len(clients) + current_idx

\* a negative argument whose floored remainder differs from the remainder of its absolute value
C2_Witness ==
    /\ last.op = "set_current_index"
    /\ last.x < 0
    /\ Len(clients) >= 3
    /\ current_idx # Abs(last.x) % Len(clients)

\* C3: swap(a, b, focus) on two distinct members exchanges a and b, leaves the rest in place,
\* and makes a current (at its new position) for focus 1, b current for focus 2, and leaves
\* the cursor alone otherwise (looked at on collections without duplicates)
C3_SwapFocusFollowsWindow ==
    (last.op = "swap" /\ ~last.err /\ last.w # last.w2 /\ distinct_args) =>
        \E i1, i2 \in 0..(Len(last.pre_clients) - 1) :
            /\ FirstAt(last.pre_clients, last.w, i1)
            /\ FirstAt(last.pre_clients, last.w2, i2)
            /\ ExchangedAt(last.pre_clients, clients, i1, i2)
            /\ (last.x = 1 => (current_idx = i2 /\ clients[current_idx + 1] = last.w))
            /\ (last.x = 2 => (current_idx = i1 /\ clients[current_idx + 1] = last.w2))
            /\ (last.x \notin {1, 2} => current_idx = last.pre_idx)

\* the position add_client is to insert at, written from its contract
C4_Position(n, cur, offset, place) ==
    IF place = "top" THEN 0
    ELSE IF place = "bottom" THEN n
    ELSE IF place = "after_current" THEN Min(Max(0, cur + 1), n)
    ELSE IF place = "before_current" THEN Min(Max(0, cur), n)
    ELSE Min(Max(0, cur + offset), n)

\* C4: add_client of a non-member inserts it at the contract's position, keeps the order of
\* the previous elements and makes it the current window
C4_AddClient ==
    (last.op = "add_client" /\ ~Member(last.pre_clients, last.w)) =>
        LET p == C4_Position(Len(last.pre_clients), last.pre_idx, last.x, last.place)
        IN  /\ InsertedAt(last.pre_clients, clients, p, last.w)
            /\ current_idx = p
            /\ clients[current_idx + 1] = last.w
            /\ Cardinality({k \in 1..Len(clients) : clients[k] = last.w}) = 1

\* [A, B] with A current, add C after_current: [A, C, B] with C current
C4_Witness ==
    /\ last.op = "add_client"
    /\ last.place = "after_current"
    /\ last.pre_clients = <<1, 2>>
    /\ last.pre_idx = 0
    /\ last.w = 3
    /\ clients = <<1, 3, 2>>
    /\ current_idx = 1

\* C5: remove of a non-member changes nothing and returns None; remove of a member at
\* position i deletes that element, resets the cursor to 0 on an empty result, steps it back
\* by one (floored at 0) when i <= cursor, leaves it otherwise, and returns the window at
\* the cursor (None when empty)
C5_Remove ==
    last.op = "remove" =>
        /\ ~last.err
        /\ IF ~Member(last.pre_clients, last.w)
             THEN clients = last.pre_clients /\ current_idx = last.pre_idx /\ last.ret = NoWindow
             ELSE \E i \in 0..(Len(last.pre_clients) - 1) :
                    /\ FirstAt(last.pre_clients, last.w, i)
                    /\ DeletedAt(last.pre_clients, clients, i)
                    /\ IF Len(clients) = 0 THEN current_idx = 0 /\ last.ret = NoWindow
                       ELSE /\ (i <= last.pre_idx /\ last.pre_idx > 0) => current_idx = last.pre_idx - 1
                            /\ (i <= last.pre_idx /\ last.pre_idx = 0) => current_idx = 0
                            /\ i > last.pre_idx => current_idx = last.pre_idx
                            /\ last.ret = clients[current_idx + 1]

\* a member strictly before the cursor is removed and the cursor steps back
C5_Witness ==
    /\ last.op = "remove"
    /\ Member(last.pre_clients, last.w)
    /\ Len(clients) >= 2
    /\ last.pre_idx >= 1
    /\ last.pre_clients[last.pre_idx + 1] # last.w
    /\ current_idx = last.pre_idx - 1
    /\ last.ret = clients[current_idx + 1]

\* C6: focus_next / focus_previous return the neighbour of a member without wrapping (None
\* past either end), raise for a non-member, and change nothing
C6_FocusNextPrevious ==
    last.op \in {"focus_next", "focus_previous"} =>
        /\ clients = last.pre_clients
        /\ current_idx = last.pre_idx
        /\ last.err = ~Member(clients, last.w)
        /\ Member(clients, last.w) =>
             \E i \in 0..(Len(clients) - 1) :
                /\ FirstAt(clients, last.w, i)
                /\ last.op = "focus_next" =>
                     last.ret = (IF i = Len(clients) - 1 THEN NoWindow ELSE clients[i + 2])
                /\ last.op = "focus_previous" =>
                     last.ret = (IF i = 0 THEN NoWindow ELSE clients[i])

\* focus_next of the last of several windows gives None
C6_Witness ==
    /\ last.op = "focus_next"
    /\ Len(clients) >= 2
    /\ Distinct(clients)
    /\ clients[Len(clients)] = last.w
    /\ last.ret = NoWindow
    /\ ~last.err

C8_Rotate ==
    (last.op \in {"rotate_up", "rotate_down"} /\ last.flag) =>
        LET n == Len(last.pre_clients)
        IN  IF n <= 1 THEN clients = last.pre_clients /\ current_idx = last.pre_idx
            ELSE /\ Len(clients) = n
                 /\ clients[current_idx + 1] = last.pre_clients[last.pre_idx + 1]
                 /\ last.op = "rotate_up" =>
                      /\ clients[n] = last.pre_clients[1]
                      /\ \A k \in 1..(n - 1) : clients[k] = last.pre_clients[k + 1]
                      /\ current_idx = (IF last.pre_idx = 0 THEN n - 1 ELSE last.pre_idx - 1)
                 /\ last.op = "rotate_down" =>
                      /\ clients[1] = last.pre_clients[n]
                      /\ \A k \in 2..n : clients[k] = last.pre_clients[k - 1]
                      /\ current_idx = (IF last.pre_idx = n - 1 THEN 0 ELSE last.pre_idx + 1)

\* rotate_up with the cursor on the first element, which crosses to the end
C8_Witness ==
    /\ last.op = "rotate_up"
    /\ last.flag
    /\ Len(clients) >= 3
    /\ Distinct(clients)
    /\ last.pre_idx = 0
    /\ current_idx = Len(clients) - 1

\* C9: rotate_up(True) directly followed by rotate_down(True) restores the list, the cursor
\* and the current window
C9_RotateUpThenDown ==
    (last.op = "rotate_down" /\ last.chain) =>
        /\ clients = last.origin_clients
        /\ current_idx = last.origin_idx
        /\ CurrentClient(clients, current_idx) = CurrentClient(last.origin_clients, last.origin_idx)

\* the pair of rotations ran on three distinct windows with the cursor on the first
C9_Witness ==
    /\ last.op = "rotate_down"
    /\ last.chain
    /\ Len(last.origin_clients) >= 3
    /\ Distinct(last.origin_clients)
    /\ last.origin_idx = 0
    /\ last.pre_idx = Len(clients) - 1

\* C10: shuffle_up exchanges the current element with its predecessor, shuffle_down with
\* its successor; nothing changes at the boundary; the cursor follows the element when
\* maintain_index is True and stays when it is False
C10_Shuffle ==
    last.op \in {"shuffle_up", "shuffle_down"} =>
        LET n == Len(last.pre_clients)
            d == IF last.op = "shuffle_up" THEN 0 - 1 ELSE 1
            boundary == IF last.op = "shuffle_up" THEN last.pre_idx = 0
                        ELSE n = 0 \/ last.pre_idx = n - 1
        IN  IF boundary THEN clients = last.pre_clients /\ current_idx = last.pre_idx
            ELSE /\ ExchangedAt(last.pre_clients, clients, last.pre_idx, last.pre_idx + d)
                 /\ last.flag => /\ current_idx = last.pre_idx + d
                                 /\ clients[current_idx + 1] = last.pre_clients[last.pre_idx + 1]
                 /\ ~last.flag => current_idx = last.pre_idx

\* shuffle_up(True) away from the boundary on three distinct windows
C10_Witness ==
    /\ last.op = "shuffle_up"
    /\ last.flag
    /\ Len(clients) >= 3
    /\ Distinct(clients)
    /\ last.pre_idx >= 1
    /\ current_idx = last.pre_idx - 1
    /\ clients # last.pre_clients

\* C11: join with another collection splices other's windows in, in their order and as one
\* block, at min(max(0, cursor + offset), length); the receiver's windows keep their order
\* and other keeps its list and cursor
C11_Join ==
    (last.op = "join" /\ ~last.alias) =>
        LET n == Len(last.pre_clients)
            m == Len(last.other)
            p == Min(Max(0, last.pre_idx + last.x), n)
        IN  /\ Len(clients) = n + m
            /\ \A k \in 1..p : clients[k] = last.pre_clients[k]
            /\ \A k \in 1..m : clients[p + k] = last.other[k]
            /\ \A k \in (p + 1)..n : clients[m + k] = last.pre_clients[k]
            /\ last.other_post = last.other
            /\ last.other_idx_post = last.other_idx

\* two windows joined in front of the last window of a non-empty receiver
C11_Witness ==
    /\ last.op = "join"
    /\ ~last.alias
    /\ Len(last.other) >= 2
    /\ Len(last.pre_clients) >= 1
    /\ last.other_idx = 1
    /\ last.pre_idx + last.x = Len(last.pre_clients) - 1
    /\ clients[Len(clients)] = last.pre_clients[Len(last.pre_clients)]
    /\ clients[Len(clients) - 1] = last.other[Len(last.other)]

\* C12: in a collection with unique windows, focus_previous of what focus_next returned for w
\* is w, and focus_next of what focus_previous returned for w is w
C12_FocusRoundTrip ==
    (last.op \in {"focus_next", "focus_previous"} /\ last.chain /\ Distinct(clients)) =>
        last.ret = last.origin_w

\* focus_next then focus_previous starting from the middle one of three windows
C12_Witness ==
    /\ last.op = "focus_previous"
    /\ last.chain
    /\ Distinct(clients)
    /\ Len(clients) >= 3
    /\ clients[2] = last.origin_w
    /\ last.w = clients[3]
    /\ last.ret = last.origin_w

\* C18: index, set_current (focus) and swap raise exactly when an argument is not a member,
\* and then the list and the cursor are what they were
C18_NotFound ==
    last.op \in {"index", "focus", "swap"} =>
        /\ last.err = (\/ ~Member(last.pre_clients, last.w)
                       \/ (last.op = "swap" /\ ~Member(last.pre_clients, last.w2)))
        /\ last.err => (clients = last.pre_clients /\ current_idx = last.pre_idx)

\* swap of a member other than the current one with a non-member
C18_Witness ==
    /\ last.op = "swap"
    /\ last.err
    /\ Member(last.pre_clients, last.w)
    /\ ~Member(last.pre_clients, last.w2)
    /\ Len(clients) >= 2
    /\ clients[current_idx + 1] # last.w
    /\ last.x = 1

\* C19: in a collection with unique windows, removing a member that is not current keeps the
\* same window current and returns it; removing the current window makes its predecessor
\* current, or the new first window when it was at index 0
C19_RemoveKeepsCurrent ==
    (last.op = "remove" /\ Distinct(last.pre_clients) /\ Len(last.pre_clients) > 0) =>
        LET old == last.pre_clients[last.pre_idx + 1]
            now == IF current_idx + 1 \in 1..Len(clients) THEN clients[current_idx + 1] ELSE NoWindow
        IN  IF last.w # old THEN now = old /\ (Member(last.pre_clients, last.w) => last.ret = old)
            ELSE IF last.pre_idx > 0 THEN now = last.pre_clients[last.pre_idx]
            ELSE now = (IF Len(clients) = 0 THEN NoWindow ELSE clients[1])

\* a window in front of the current one is removed from three unique windows
C19_Witness ==
    /\ last.op = "remove"
    /\ Distinct(last.pre_clients)
    /\ Len(last.pre_clients) >= 3
    /\ last.pre_idx = 2
    /\ last.w = last.pre_clients[1]
    /\ current_idx = 1
    /\ last.ret = last.pre_clients[3]

\* ---- _SimpleLayoutBase operations ----

\* the _ClientList a layout refers to (self.clients)
View(l) == colls[layouts[l].coll]

\* some constructed layout holds w
Held(w) == \E l \in LayoutIds : layouts[l].exists /\ Contains(View(l).clients, w)

\* Layout.group: the error the property raises, "" when it returns the group
GroupAccess(g) == IF g = NoGroup THEN "RuntimeError" ELSE ""

\* clone that leaves the copy with the source's _ClientList
CloneResultShared(src, group, fresh) ==
    [source |-> src, copy |-> [exists |-> TRUE, group |-> group, coll |-> src.coll]]

\* clone that attaches the source as well
CloneResultAttachSource(src, group, fresh) ==
    [source |-> [src EXCEPT !.group = group],
     copy |-> [exists |-> TRUE, group |-> group, coll |-> fresh]]

\* Layout.clone and _SimpleLayoutBase.clone: c = copy.copy(self) is a shallow copy, then
\* c._group = group and c.clients = _ClientList(), the new object fresh
CloneResult(src, group, fresh) ==
    [source |-> src, copy |-> [exists |-> TRUE, group |-> group, coll |-> fresh]]

\* a call of a primitive of the owning group, with the layout's client list at that moment
GroupCall(prim, g, w, warp, seen) == [prim |-> prim, g |-> g, win |-> w, warp |-> warp, seen |-> seen]

\* swap that applies the focus before the re-layout
SwapCallsFocusFirst(g, w1, seen) ==
    <<GroupCall("focus", g, w1, "default", seen), GroupCall("layout_all", g, NoWindow, "none", seen)>>

\* _SimpleLayoutBase.swap lines 513-514: group.layout_all() then group.focus(window1)
SwapCalls(g, w1, seen) ==
    <<GroupCall("layout_all", g, NoWindow, "none", seen), GroupCall("focus", g, w1, "default", seen)>>

\* _SimpleLayoutBase.focus(client), which the group may call from its focus primitive (cb)
FocusedColl(c, w, cb) == IF cb THEN [c EXCEPT !.idx = Index(c.clients, w)] ELSE c

\* clone(group) on layout l
LClone(l, g) ==
    /\ layouts[l].exists
    /\ \E c \in LayoutIds :
        /\ ~layouts[c].exists
        /\ \A d \in LayoutIds : d < c => layouts[d].exists
        /\ LET res == CloneResult(layouts[l], g, c)
           IN  layouts' = [layouts EXCEPT ![l] = res.source, ![c] = res.copy]
        /\ colls' = [colls EXCEPT ![c] = EmptyColl]
        /\ llast' = [BlankCall EXCEPT !.op = "clone", !.l = l, !.c = c, !.g = g]
    /\ run' = NoRun
    /\ UNCHANGED cvars

\* Layout.group read on layout l
LGroup(l) ==
    /\ layouts[l].exists
    /\ llast' = [BlankCall EXCEPT !.op = "group", !.l = l, !.err = GroupAccess(layouts[l].group),
                                  !.g = layouts[l].group]
    /\ run' = NoRun
    /\ UNCHANGED <<layouts, colls>>
    /\ UNCHANGED cvars

\* add_client(client, offset_to_current, client_position) on layout l
LAddClient(l, w, offset, place) ==
    /\ layouts[l].exists
    /\ LET c == View(l)
           new == AddClientList(c.clients, c.idx, w, offset, place)
       IN  colls' = [colls EXCEPT ![layouts[l].coll] = [clients |-> new, idx |-> Index(new, w)]]
    /\ llast' = [BlankCall EXCEPT !.op = "add_client", !.l = l]
    /\ run' = NoRun
    /\ UNCHANGED layouts
    /\ UNCHANGED cvars

\* remove(client) on layout l
LRemove(l, w) ==
    /\ layouts[l].exists
    /\ LET c == View(l)
       IN  IF ~Contains(c.clients, w)
             THEN /\ llast' = [BlankCall EXCEPT !.op = "remove", !.l = l, !.w = w]
                  /\ UNCHANGED colls
             ELSE LET idx == Index(c.clients, w)
                      new == ListDelete(c.clients, idx)
                      cur == RemoveIndex(c.idx, idx, Len(new))
                  IN  /\ colls' = [colls EXCEPT ![layouts[l].coll] = [clients |-> new, idx |-> cur]]
                      /\ llast' = [BlankCall EXCEPT !.op = "remove", !.l = l, !.w = w,
                                                    !.ret = GetItem(new, cur)]
    /\ run' = NoRun
    /\ UNCHANGED layouts
    /\ UNCHANGED cvars

\* focus(client) on layout l: ValueError for a non-member
LFocus(l, w) ==
    /\ layouts[l].exists
    /\ LET c == View(l)
       IN  IF Contains(c.clients, w)
             THEN /\ colls' = [colls EXCEPT ![layouts[l].coll] = FocusedColl(c, w, TRUE)]
                  /\ llast' = [BlankCall EXCEPT !.op = "focus", !.l = l, !.w = w]
             ELSE /\ UNCHANGED colls
                  /\ llast' = [BlankCall EXCEPT !.op = "focus", !.l = l, !.w = w,
                                                !.err = "ValueError"]
    /\ run' = NoRun
    /\ UNCHANGED layouts
    /\ UNCHANGED cvars

\* focus_first() on layout l
LFocusFirst(l) ==
    /\ layouts[l].exists
    /\ llast' = [BlankCall EXCEPT !.op = "focus_first", !.l = l,
                                  !.ret = GetItem(View(l).clients, 0)]
    /\ run' = NoRun
    /\ UNCHANGED <<layouts, colls>>
    /\ UNCHANGED cvars

\* focus_last() on layout l
LFocusLast(l) ==
    /\ layouts[l].exists
    /\ llast' = [BlankCall EXCEPT !.op = "focus_last", !.l = l,
                                  !.ret = GetItem(View(l).clients, -1)]
    /\ run' = NoRun
    /\ UNCHANGED <<layouts, colls>>
    /\ UNCHANGED cvars

\* focus_next(window) on layout l: ValueError for a non-member
LFocusNext(l, w) ==
    /\ layouts[l].exists
    /\ llast' = IF Contains(View(l).clients, w)
                  THEN [BlankCall EXCEPT !.op = "focus_next", !.l = l, !.w = w,
                                         !.ret = FocusNextRet(View(l).clients, w)]
                  ELSE [BlankCall EXCEPT !.op = "focus_next", !.l = l, !.w = w,
                                         !.err = "ValueError"]
    /\ run' = NoRun
    /\ UNCHANGED <<layouts, colls>>
    /\ UNCHANGED cvars

\* focus_previous(window) on layout l: ValueError for a non-member
LFocusPrevious(l, w) ==
    /\ layouts[l].exists
    /\ llast' = IF Contains(View(l).clients, w)
                  THEN [BlankCall EXCEPT !.op = "focus_previous", !.l = l, !.w = w,
                                         !.ret = FocusPreviousRet(View(l).clients, w)]
                  ELSE [BlankCall EXCEPT !.op = "focus_previous", !.l = l, !.w = w,
                                         !.err = "ValueError"]
    /\ run' = NoRun
    /\ UNCHANGED <<layouts, colls>>
    /\ UNCHANGED cvars

\* x or y on Window | None
Or(x, y) == IF x # NoWindow THEN x ELSE y

\* the run of consecutive next() / previous() calls on layout l whose window the group made
\* current: the window current at its start and the windows made current since
RunAfter(l, kind, cur, client, n) ==
    IF run.kind = kind /\ run.l = l /\ Len(run.seen) < n
      THEN [run EXCEPT !.seen = Append(@, client)]
      ELSE [l |-> l, kind |-> kind, start |-> cur, seen |-> <<client>>]

\* next() on layout l; cb: the group's focus primitive calls back focus(client)
LNext(l, cb) ==
    /\ layouts[l].exists
    /\ LET c == View(l)
           g == layouts[l].group
           cur == CurrentClient(c.clients, c.idx)
       IN  IF cur = NoWindow
             THEN /\ cb = FALSE
                  /\ llast' = [BlankCall EXCEPT !.op = "next", !.l = l]
                  /\ run' = NoRun
                  /\ UNCHANGED colls
             ELSE LET client == Or(FocusNextRet(c.clients, cur), GetItem(c.clients, 0))
                  IN  IF GroupAccess(g) # ""
                        THEN /\ cb = FALSE
                             /\ llast' = [BlankCall EXCEPT !.op = "next", !.l = l,
                                                           !.pre_cur = cur, !.err = GroupAccess(g)]
                             /\ run' = NoRun
                             /\ UNCHANGED colls
                        ELSE /\ colls' = [colls EXCEPT ![layouts[l].coll] = FocusedColl(c, client, cb)]
                             /\ llast' = [BlankCall EXCEPT
                                            !.op = "next", !.l = l, !.cb = cb, !.pre_cur = cur,
                                            !.calls = <<GroupCall("focus", g, client, "True", c.clients)>>,
                                            !.origin = IF cb /\ llast.op = "previous" /\ llast.cb
                                                          /\ llast.l = l
                                                       THEN llast.pre_cur ELSE NoWindow]
                             /\ run' = IF cb THEN RunAfter(l, "next", cur, client, Len(c.clients))
                                       ELSE NoRun
    /\ UNCHANGED layouts
    /\ UNCHANGED cvars

\* previous() on layout l; cb: the group's focus primitive calls back focus(client)
LPrevious(l, cb) ==
    /\ layouts[l].exists
    /\ LET c == View(l)
           g == layouts[l].group
           cur == CurrentClient(c.clients, c.idx)
       IN  IF cur = NoWindow
             THEN /\ cb = FALSE
                  /\ llast' = [BlankCall EXCEPT !.op = "previous", !.l = l]
                  /\ run' = NoRun
                  /\ UNCHANGED colls
             ELSE LET client == Or(FocusPreviousRet(c.clients, cur), GetItem(c.clients, -1))
                  IN  IF GroupAccess(g) # ""
                        THEN /\ cb = FALSE
                             /\ llast' = [BlankCall EXCEPT !.op = "previous", !.l = l,
                                                           !.pre_cur = cur, !.err = GroupAccess(g)]
                             /\ run' = NoRun
                             /\ UNCHANGED colls
                        ELSE /\ colls' = [colls EXCEPT ![layouts[l].coll] = FocusedColl(c, client, cb)]
                             /\ llast' = [BlankCall EXCEPT
                                            !.op = "previous", !.l = l, !.cb = cb, !.pre_cur = cur,
                                            !.calls = <<GroupCall("focus", g, client, "True", c.clients)>>,
                                            !.origin = IF cb /\ llast.op = "next" /\ llast.cb
                                                          /\ llast.l = l
                                                       THEN llast.pre_cur ELSE NoWindow]
                             /\ run' = IF cb THEN RunAfter(l, "previous", cur, client, Len(c.clients))
                                       ELSE NoRun
    /\ UNCHANGED layouts
    /\ UNCHANGED cvars

\* swap(window1, window2) on layout l: the collection's swap with focus 1, then the group's
\* layout_all and focus; cb: the group's focus primitive calls back focus(window1)
LSwap(l, w1, w2, cb) ==
    /\ layouts[l].exists
    /\ LET c == View(l)
           g == layouts[l].group
       IN  IF ~(Contains(c.clients, w1) /\ Contains(c.clients, w2))
             THEN /\ cb = FALSE
                  /\ llast' = [BlankCall EXCEPT !.op = "swap", !.l = l, !.w = w1, !.w2 = w2,
                                                !.err = "ValueError"]
                  /\ UNCHANGED colls
             ELSE LET i1 == Index(c.clients, w1)
                      i2 == Index(c.clients, w2)
                      new == ListExchange(c.clients, i1, i2)
                      sc == [clients |-> new, idx |-> SwapIndex(c.idx, i1, i2, 1, Len(new))]
                  IN  IF GroupAccess(g) # ""
                        THEN /\ cb = FALSE
                             /\ colls' = [colls EXCEPT ![layouts[l].coll] = sc]
                             /\ llast' = [BlankCall EXCEPT !.op = "swap", !.l = l, !.w = w1,
                                                           !.w2 = w2, !.err = GroupAccess(g)]
                        ELSE /\ colls' = [colls EXCEPT ![layouts[l].coll] = FocusedColl(sc, w1, cb)]
                             /\ llast' = [BlankCall EXCEPT !.op = "swap", !.l = l, !.w = w1,
                                                           !.w2 = w2, !.cb = cb,
                                                           !.calls = SwapCalls(g, w1, new)]
    /\ run' = NoRun
    /\ UNCHANGED layouts
    /\ UNCHANGED cvars

\* info() on layout l: Layout.info reads the group property before it tests it
LInfo(l) ==
    /\ layouts[l].exists
    /\ LET c == View(l)
           g == layouts[l].group
       IN  llast' = IF GroupAccess(g) # ""
                      THEN [BlankCall EXCEPT !.op = "info", !.l = l, !.err = GroupAccess(g)]
                      ELSE [BlankCall EXCEPT !.op = "info", !.l = l,
                                             !.info = [group |-> g, clients |-> c.clients,
                                                       current |-> c.idx]]
    /\ run' = NoRun
    /\ UNCHANGED <<layouts, colls>>
    /\ UNCHANGED cvars

\* the (offset_to_current, client_position) pairs add_client is called with
LAddArgs == {<<0, "none">>, <<1, "none">>, <<0, "top">>, <<0, "bottom">>}

\* the owning group registers a window with a layout once: add_client is only issued for a
\* window no layout holds
GroupAddClient(l, w, offset, place) ==
    /\ ~Held(w)
    /\ LAddClient(l, w, offset, place)

\* the template and the clones made for groups, each driven through every operation
LayoutNext ==
    \/ \E l \in LayoutIds, g \in Groups : LClone(l, g)
    \/ \E l \in LayoutIds : LGroup(l)
    \/ \E l \in LayoutIds, w \in LayoutWindows, a \in LAddArgs : GroupAddClient(l, w, a[1], a[2])
    \/ \E l \in LayoutIds, w \in LayoutWindows : LRemove(l, w)
    \/ \E l \in LayoutIds, w \in LayoutWindows : LFocus(l, w)
    \/ \E l \in LayoutIds : LFocusFirst(l)
    \/ \E l \in LayoutIds : LFocusLast(l)
    \/ \E l \in LayoutIds, w \in LayoutWindows : LFocusNext(l, w)
    \/ \E l \in LayoutIds, w \in LayoutWindows : LFocusPrevious(l, w)
    \/ \E l \in LayoutIds, cb \in BOOLEAN : LNext(l, cb)
    \/ \E l \in LayoutIds, cb \in BOOLEAN : LPrevious(l, cb)
    \/ \E l \in LayoutIds, w1, w2 \in LayoutWindows, cb \in BOOLEAN : LSwap(l, w1, w2, cb)
    \/ \E l \in LayoutIds : LInfo(l)

SpecLayout == Init /\ [][LayoutNext]_vars

\* the first clone of the template, the layout its group drives
Driven == {1}

\* the template is cloned for groups and the first clone is driven by its group
CycleNext ==
    \/ \E g \in Groups : LClone(Template, g)
    \/ \E l \in Driven, w \in Windows, a \in LAddArgs : GroupAddClient(l, w, a[1], a[2])
    \/ \E l \in Driven, w \in Windows : LRemove(l, w)
    \/ \E l \in Driven, w \in Windows : LFocus(l, w)
    \/ \E l \in Driven, cb \in BOOLEAN : LNext(l, cb)
    \/ \E l \in Driven, cb \in BOOLEAN : LPrevious(l, cb)
    \/ \E l \in Driven, w1, w2 \in Windows, cb \in BOOLEAN : LSwap(l, w1, w2, cb)

SpecCycle == Init /\ [][CycleNext]_vars

\* ---- properties of the layouts ----

\* C13: a clone starts with a new empty collection whatever the source holds, and a call on
\* one layout leaves the list and cursor of every other layout (template or clone) as they were
C13_CloneIsolation ==
    [][/\ \A l \in LayoutIds :
            (layouts[l].exists /\ l # llast'.l) => colls'[layouts'[l].coll] = colls[layouts[l].coll]
       /\ llast'.op = "clone" =>
            /\ colls'[layouts'[llast'.c].coll] = EmptyColl
            /\ colls'[layouts'[llast'.l].coll] = colls[layouts[llast'.l].coll]]_vars

\* both clones exist, the template holds a window, and a window was just added to the first
\* clone only
C13_Witness ==
    /\ llast.op = "add_client"
    /\ llast.l = 1
    /\ layouts[1].exists /\ layouts[2].exists
    /\ Len(View(Template).clients) = 1
    /\ Len(View(1).clients) = 1
    /\ View(1).clients # View(Template).clients
    /\ View(2) = EmptyColl

\* C14: the constructed template has no group and reading the group of a layout without one
\* raises RuntimeError; clone(g) gives an instance attached to g and leaves the source's
\* attachment alone; no call changes the group of an existing layout
C14_Attachment ==
    [][/\ \A l \in LayoutIds :
            layouts[l].exists => (layouts'[l].exists /\ layouts'[l].group = layouts[l].group)
       /\ layouts'[Template].group = NoGroup
       /\ llast'.op = "clone" =>
            /\ ~layouts[llast'.c].exists
            /\ llast'.g \in Groups
            /\ layouts'[llast'.c].group = llast'.g
       /\ llast'.op = "group" =>
            llast'.err = (IF layouts[llast'.l].group = NoGroup THEN "RuntimeError" ELSE "")]_vars

\* a clone attached to one group was cloned for the other group
C14_Witness ==
    /\ llast.op = "clone"
    /\ llast.l = 1
    /\ llast.c = 2
    /\ layouts[1].group = "g1"
    /\ layouts[2].group = "g2"
    /\ layouts[Template].group = NoGroup

\* C15: next() on an attached layout calls the group's focus once, with the window after the
\* current one or the first window when the current one is last; previous() with the window
\* before it or the last window when it is first; on an empty layout neither calls the group
\* or changes anything
C15_NextPrevious ==
    [][(llast'.op \in {"next", "previous"} /\ layouts[llast'.l].group # NoGroup) =>
         LET c == colls[layouts[llast'.l].coll]
             n == Len(c.clients)
         IN  IF n = 0 THEN llast'.calls = <<>> /\ colls' = colls /\ layouts' = layouts
             ELSE /\ Len(llast'.calls) = 1
                  /\ llast'.calls[1].prim = "focus"
                  /\ llast'.calls[1].g = layouts[llast'.l].group
                  /\ llast'.op = "next" =>
                       llast'.calls[1].win = (IF c.idx = n - 1 THEN c.clients[1]
                                              ELSE c.clients[c.idx + 2])
                  /\ llast'.op = "previous" =>
                       llast'.calls[1].win = (IF c.idx = 0 THEN c.clients[n]
                                              ELSE c.clients[c.idx])]_vars

\* next() with the last of three windows current hands the first window to the group
C15_Witness ==
    /\ llast.op = "next"
    /\ ~llast.cb
    /\ Len(llast.calls) = 1
    /\ Len(View(1).clients) = 3
    /\ View(1).idx = 2
    /\ llast.calls[1].win = View(1).clients[1]

\* C16: info() gives a record whose group is the owning group's name, or None for a layout
\* without a group, and changes nothing
C16_InfoGroupOrNone ==
    llast.op = "info" =>
        /\ llast.err = ""
        /\ llast.info.group = layouts[llast.l].group
        /\ llast.info.clients = View(llast.l).clients
        /\ llast.info.current = View(llast.l).idx

\* C17: swap(w1, w2) on an attached layout exchanges the windows first, then calls the
\* group's layout_all once, then its focus once with w1; with a non-member it raises before
\* any group call and leaves the collection alone
C17_SwapOrder ==
    [][(llast'.op = "swap" /\ layouts[llast'.l].group # NoGroup) =>
         LET c == colls[layouts[llast'.l].coll]
         IN  IF Member(c.clients, llast'.w) /\ Member(c.clients, llast'.w2)
               THEN /\ llast'.err = ""
                    /\ Len(llast'.calls) = 2
                    /\ llast'.calls[1].prim = "layout_all"
                    /\ llast'.calls[2].prim = "focus"
                    /\ llast'.calls[2].win = llast'.w
                    /\ llast'.calls[2].seen = llast'.calls[1].seen
                    /\ colls'[layouts'[llast'.l].coll].clients = llast'.calls[1].seen
                    /\ \E i1, i2 \in 0..(Len(c.clients) - 1) :
                          /\ FirstAt(c.clients, llast'.w, i1)
                          /\ FirstAt(c.clients, llast'.w2, i2)
                          /\ ExchangedAt(c.clients, llast'.calls[1].seen, i1, i2)
               ELSE /\ llast'.err = "ValueError"
                    /\ llast'.calls = <<>>
                    /\ colls' = colls]_vars

\* two different windows of three were swapped and both group calls were made
C17_Witness ==
    /\ llast.op = "swap"
    /\ llast.w # llast.w2
    /\ Len(llast.calls) = 2
    /\ Len(View(llast.l).clients) = 3
    /\ llast.calls[1].seen = View(llast.l).clients

\* C20: when the group makes current every window next() hands it, n consecutive next()
\* calls on n unique windows make each window current once and end on the window they
\* started from; the same for previous(); previous() directly after next() restores the
\* current window
C20_Cycle ==
    /\ (run.kind # "none" /\ Len(run.seen) = Len(View(run.l).clients)) =>
          /\ Distinct(run.seen)
          /\ {run.seen[k] : k \in 1..Len(run.seen)}
               = {View(run.l).clients[k] : k \in 1..Len(View(run.l).clients)}
          /\ run.seen[Len(run.seen)] = run.start
          /\ CurrentClient(View(run.l).clients, View(run.l).idx) = run.start
    /\ (llast.op = "previous" /\ llast.origin # NoWindow) =>
          CurrentClient(View(llast.l).clients, View(llast.l).idx) = llast.origin

\* three next() calls in a row on three windows
C20_Witness ==
    /\ run.kind = "next"
    /\ Len(run.seen) = 3
    /\ Len(View(run.l).clients) = 3
    /\ llast.op = "next"
====
